---- MODULE Spec2Model ----
(***************************************************************************)
(* A model of jsparagus/emit.py: the two emitters that turn a computed LR  *)
(* automaton (states, productions, grammar metadata) into parser source    *)
(* text, with the identifier normaliser, the type translator and the       *)
(* reduction-expression compilers they use.                                *)
(*                                                                         *)
(* Every piece of text (a name, a type, an emitted line) is the string the  *)
(* program computes, character for character.                              *)
(***************************************************************************)
EXTENDS Integers, Sequences, FiniteSets, TLC

VARIABLES
    target,         \* "rust" | "python": the emitter the driver selected
    parser_states,  \* the IR handed to the emitter (never mutated)
    terminals,      \* RustParserWriter.terminals
    nonterminals,   \* RustParserWriter.nonterminals
    pc,             \* the next step of the selected emitter
    out,            \* the output stream: the chunks written so far
    error,          \* "" while no exception was raised, else its class name
    pure_call,      \* the arguments of a call of a pure function under test
    pure_result     \* what that call returned or raised

vars == <<target, parser_states, terminals, nonterminals, pc, out, error, pure_call, pure_result>>

(***************************************************************************)
(* Python's str methods and the two regular-expression substitutions.      *)
(* Text is a string; Ch(s, i) is its i-th character.                       *)
(***************************************************************************)
Ch(s, i) == SubSeq(s, i, i)

UpperSeq == "ABCDEFGHIJKLMNOPQRSTUVWXYZ"

LowerSeq == "abcdefghijklmnopqrstuvwxyz"

Upper == {Ch(UpperSeq, i) : i \in 1..Len(UpperSeq)}

Lower == {Ch(LowerSeq, i) : i \in 1..Len(LowerSeq)}

Digit == {"0", "1", "2", "3", "4", "5", "6", "7", "8", "9"}

str_lower_char(c) ==
    IF c \in Upper
    THEN Ch(LowerSeq, CHOOSE i \in 1..Len(UpperSeq) : Ch(UpperSeq, i) = c)
    ELSE c

str_upper_char(c) ==
    IF c \in Lower
    THEN Ch(UpperSeq, CHOOSE i \in 1..Len(LowerSeq) : Ch(LowerSeq, i) = c)
    ELSE c

\* str.lower()
RECURSIVE str_lower(_)
str_lower(s) ==
    IF s = "" THEN "" ELSE str_lower_char(Head(s)) \o str_lower(Tail(s))

\* str.upper()
RECURSIVE str_upper(_)
str_upper(s) ==
    IF s = "" THEN "" ELSE str_upper_char(Head(s)) \o str_upper(Tail(s))

\* str.capitalize(): the first character upper-cased, the rest lower-cased.
str_capitalize(s) ==
    IF s = "" THEN "" ELSE str_upper_char(Head(s)) \o str_lower(Tail(s))

\* str.islower(): at least one cased character and no upper-case one.
str_islower(s) ==
    /\ \E i \in 1..Len(s) : Ch(s, i) \in Lower
    /\ \A i \in 1..Len(s) : Ch(s, i) \notin Upper

\* str.isalpha(): not empty, and letters only.
str_isalpha(s) ==
    /\ s # ""
    /\ \A i \in 1..Len(s) : Ch(s, i) \in Upper \cup Lower

\* c in s, for a character c
str_contains(s, c) == \E i \in 1..Len(s) : Ch(s, i) = c

\* s.find(c) + 1, for a character c that occurs in s
str_find(s, c) ==
    CHOOSE i \in 1..Len(s) :
        /\ Ch(s, i) = c
        /\ \A j \in 1..(i - 1) : Ch(s, j) # c

\* str.split(sep): the list of the pieces between the separators.
RECURSIVE str_split(_, _)
str_split(s, sep) ==
    IF ~str_contains(s, sep)
    THEN <<s>>
    ELSE LET k == str_find(s, sep)
         IN  <<SubSeq(s, 1, k - 1)>> \o str_split(SubSeq(s, k + 1, Len(s)), sep)

\* str.partition(sep): <<head, separator, tail>>.
str_partition(s, sep) ==
    IF ~str_contains(s, sep)
    THEN <<s, "", "">>
    ELSE LET k == str_find(s, sep)
         IN  <<SubSeq(s, 1, k - 1), sep, SubSeq(s, k + 1, Len(s))>>

\* str.replace(old, new), for a character old
RECURSIVE str_replace(_, _, _)
str_replace(s, old, new) ==
    IF s = "" THEN ""
    ELSE (IF Head(s) = old THEN new ELSE Head(s)) \o str_replace(Tail(s), old, new)

\* sep.join(parts)
RECURSIVE str_join(_, _)
str_join(sep, parts) ==
    IF parts = <<>> THEN ""
    ELSE IF Len(parts) = 1 THEN parts[1]
    ELSE parts[1] \o sep \o str_join(sep, Tail(parts))

\* The end of the run of lower-case letters that starts at position i.
RECURSIVE LowerRunEnd(_, _)
LowerRunEnd(s, i) ==
    IF i + 1 <= Len(s) /\ Ch(s, i + 1) \in Lower THEN LowerRunEnd(s, i + 1) ELSE i

\* re.sub('(.)([A-Z][a-z]+)', r'\1_\2', s), scanning from position i.
RECURSIVE re_sub_word(_, _)
re_sub_word(s, i) ==
    IF i > Len(s) THEN ""
    ELSE IF i + 2 <= Len(s) /\ Ch(s, i + 1) \in Upper /\ Ch(s, i + 2) \in Lower
    THEN LET j == LowerRunEnd(s, i + 2)
         IN  Ch(s, i) \o "_" \o SubSeq(s, i + 1, j) \o re_sub_word(s, j + 1)
    ELSE Ch(s, i) \o re_sub_word(s, i + 1)

\* re_sub_hump with the class [a-z] in place of [a-z0-9]: no separator is put
\* after a digit.
RECURSIVE re_sub_hump_after_letter(_, _)
re_sub_hump_after_letter(s, i) ==
    IF i > Len(s) THEN ""
    ELSE IF i + 1 <= Len(s) /\ Ch(s, i) \in Lower /\ Ch(s, i + 1) \in Upper
    THEN Ch(s, i) \o "_" \o Ch(s, i + 1) \o re_sub_hump_after_letter(s, i + 2)
    ELSE Ch(s, i) \o re_sub_hump_after_letter(s, i + 1)

\* re.sub('([a-z0-9])([A-Z])', r'\1_\2', s), scanning from position i.
RECURSIVE re_sub_hump(_, _)
re_sub_hump(s, i) ==
    IF i > Len(s) THEN ""
    ELSE IF i + 1 <= Len(s) /\ Ch(s, i) \in Lower \cup Digit /\ Ch(s, i + 1) \in Upper
    THEN Ch(s, i) \o "_" \o Ch(s, i + 1) \o re_sub_hump(s, i + 2)
    ELSE Ch(s, i) \o re_sub_hump(s, i + 1)

(***************************************************************************)
(* The identifier normaliser.                                              *)
(***************************************************************************)
to_snek_case(ident) ==
    LET s1 == re_sub_word(ident, 1)
    IN  str_lower(re_sub_hump(s1, 1))

RECURSIVE CapitalizeAll(_)
CapitalizeAll(words) ==
    IF words = <<>> THEN ""
    ELSE str_capitalize(words[1]) \o CapitalizeAll(Tail(words))

to_camel_case(ident) ==
    IF str_contains(ident, "_")
    THEN CapitalizeAll(str_split(ident, "_"))
    ELSE IF str_islower(ident)
    THEN str_capitalize(ident)
    ELSE ident

(***************************************************************************)
(* The values of the IR.                                                   *)
(*                                                                         *)
(*   terminal     None (the end of input), ErrorToken, or StrOf(text)      *)
(*   nonterminal  Nt(name, args), args a list of [name, value]; init marks *)
(*                an Nt whose name is an InitNt (a goal's start symbol)    *)
(*   element      a string StrOf(text), an Nt, Optional(inner), or a       *)
(*                LookaheadRule (which takes no stack slot)                *)
(*   expression   an integer, None, Some(inner) or CallMethod(method,args) *)
(*   type         Type(name, args)                                         *)
(*   state        [action_row, ctn_row, error_code, traceback]; a row is a  *)
(*                dict in insertion order: a list of [key, value]          *)
(*   production   [nt, rhs, reducer]                                       *)
(*   grammar      [methods, nonterminals, variable_terminals]: methods a   *)
(*                dict tag -> [argument_types, return_type], nonterminals  *)
(*                a dict key -> [type], the key a string or an Nt          *)
(***************************************************************************)
None == [kind |-> "None"]

ErrorToken == [kind |-> "ErrorToken"]

StrOf(text) == [kind |-> "str", text |-> text]

Nt(name, args) == [kind |-> "Nt", name |-> name, args |-> args, init |-> FALSE]

InitNt(goal) == [kind |-> "Nt", name |-> goal, args |-> <<>>, init |-> TRUE]

Optional(inner) == [kind |-> "Optional", inner |-> inner]

LookaheadRule == [kind |-> "LookaheadRule"]

IntExpr(i) == [kind |-> "int", value |-> i]

Some(inner) == [kind |-> "Some", inner |-> inner]

CallMethod(method, args) == [kind |-> "CallMethod", method |-> method, args |-> args]

Type(name, args) == [name |-> name, args |-> args]

UnitType == Type("Unit", <<>>)

TokenType == Type("Token", <<>>)

\* An element that occupies a stack slot at parse time.
is_concrete_element(e) == e.kind # "LookaheadRule"

\* The result of a call: a value, or the exception that ended it.
Returned(v) == [ok |-> TRUE, error |-> "", value |-> v]

Raised(e) == [ok |-> FALSE, error |-> e, value |-> ""]

(***************************************************************************)
(* Names of nonterminals, methods and terminals.                           *)
(***************************************************************************)
RECURSIVE SnakeArgs(_)
SnakeArgs(args) ==
    IF args = <<>> THEN ""
    ELSE (IF args[1].value THEN "_" \o to_snek_case(args[1].name) ELSE "")
         \o SnakeArgs(Tail(args))

nonterminal_to_snake(ident) ==
    IF ident.kind = "Nt"
    THEN to_snek_case(ident.name) \o SnakeArgs(ident.args)
    ELSE to_snek_case(ident.text)

nonterminal_to_camel(nt) == to_camel_case(nonterminal_to_snake(nt))

method_name_to_rust(name) ==
    LET parts == str_partition(name, " ")
        snake == nonterminal_to_snake(StrOf(parts[1]))
    IN  IF parts[2] # "" THEN snake \o "_p" \o parts[3] ELSE snake

TERMINAL_NAMES == [text \in {"=>"} |-> "Arrow"]

FALLIBLE_METHOD_NAMES ==
    { "assignment_expression",
      "compound_assignment_expression",
      "expression_to_parameter_list",
      "for_assignment_target",
      "for_await_of_statement",
      "post_decrement_expr",
      "post_increment_expr",
      "pre_decrement_expr",
      "pre_increment_expr" }

\* unicodedata.name(c), for the punctuation the model's terminals are made of
unicodedata_name(c) ==
    CASE c = "+" -> "PLUS SIGN"
      [] c = "-" -> "HYPHEN-MINUS"
      [] c = "=" -> "EQUALS SIGN"
      [] c = ">" -> "GREATER-THAN SIGN"
      [] c = "(" -> "LEFT PARENTHESIS"
      [] c = ";" -> "SEMICOLON"

RECURSIVE UnicodeNames(_)
UnicodeNames(value) ==
    IF value = "" THEN <<>>
    ELSE <<unicodedata_name(Head(value))>> \o UnicodeNames(Tail(value))

terminal_name(value) ==
    IF value = None THEN "End"
    ELSE IF value = ErrorToken THEN "ErrorToken"
    ELSE IF value.text \in DOMAIN TERMINAL_NAMES THEN TERMINAL_NAMES[value.text]
    ELSE IF str_isalpha(value.text)
    THEN IF str_islower(value.text) THEN str_capitalize(value.text) ELSE value.text
    ELSE LET raw_name   == str_join(" ", UnicodeNames(value.text))
             snake_case == str_lower(str_replace(str_replace(raw_name, "-", " "), " ", "_"))
         IN  to_camel_case(snake_case)

(***************************************************************************)
(* The type translator.                                                    *)
(***************************************************************************)
RECURSIVE type_to_rust(_, _, _)
RECURSIVE TypeArgsToRust(_, _, _)

\* ', '.join(...) of one translated argument and the translated rest
JoinArgs(first, rest, last) ==
    IF ~first.ok THEN first
    ELSE IF last THEN first
    ELSE IF ~rest.ok THEN rest
    ELSE Returned(first.value \o ", " \o rest.value)

\* ', '.join(self.type_to_rust(arg, namespace, boxed) for arg in args)
TypeArgsToRust(args, namespace, boxed) ==
    IF args = <<>> THEN Returned("")
    ELSE JoinArgs(type_to_rust(args[1], namespace, boxed),
                  TypeArgsToRust(Tail(args), namespace, boxed),
                  Len(args) = 1)

\* The tail of type_to_rust: the arena box around rty when boxing is requested.
BoxIfRequested(rty, boxed) ==
    IF boxed THEN "Box<'alloc, " \o rty \o ">" ELSE rty

\* OptionOf with the fault the comment in the code warns of: the option boxed
\* as a whole, on top of its boxed argument.
OptionOfBoxed(arg) ==
    IF ~arg.ok THEN arg ELSE Returned("Box<'alloc, Option<" \o arg.value \o ">>")

\* The Option branch: returns at once, the box already applied to the argument.
OptionOf(arg) ==
    IF ~arg.ok THEN arg ELSE Returned("Option<" \o arg.value \o ">")

\* VecOf with the tail of type_to_rust skipped: the sequence is never boxed.
VecOfBare(arg, boxed) ==
    IF ~arg.ok THEN arg ELSE Returned("Vec<'alloc, " \o arg.value \o ">")

\* The Vec branch, followed by the tail of type_to_rust.
VecOf(arg, boxed) ==
    IF ~arg.ok THEN arg
    ELSE Returned(BoxIfRequested("Vec<'alloc, " \o arg.value \o ">", boxed))

\* The branch of a named type with arguments, followed by the tail.
NamedOf(path, args, boxed) ==
    IF ~args.ok THEN args
    ELSE Returned(BoxIfRequested(path \o "<" \o args.value \o ">", boxed))

\* The path of a named type: namespace::name, or name with no namespace.
TypePath(name, namespace) ==
    IF namespace = "" THEN name ELSE namespace \o "::" \o name

type_to_rust(ty, namespace, boxed) ==
    IF ty = UnitType
    THEN IF boxed THEN Raised("AssertionError") ELSE Returned("()")
    ELSE IF ty = TokenType
    THEN Returned(BoxIfRequested("Token<'alloc>", boxed))
    ELSE IF ty.name = "Option" /\ Len(ty.args) = 1
    THEN OptionOf(type_to_rust(ty.args[1], namespace, boxed))
    ELSE IF ty.name = "Vec" /\ Len(ty.args) = 1
    THEN VecOf(type_to_rust(ty.args[1], namespace, FALSE), boxed)
    ELSE IF ty.args # <<>>
    THEN NamedOf(TypePath(ty.name, namespace),
                 TypeArgsToRust(ty.args, namespace, boxed), boxed)
    ELSE Returned(BoxIfRequested(TypePath(ty.name, namespace), boxed))

(***************************************************************************)
(* Dicts and ordered sets.                                                 *)
(***************************************************************************)
\* key in d
HasKey(d, key) == \E i \in DOMAIN d : d[i].key = key

\* d[key], for a key of d
Lookup(d, key) == d[CHOOSE i \in DOMAIN d : d[i].key = key].value

\* d.get(key, default)
Get(d, key, default) == IF HasKey(d, key) THEN Lookup(d, key) ELSE default

\* list(d): the keys in insertion order
RECURSIVE Keys(_)
Keys(d) == IF d = <<>> THEN <<>> ELSE <<d[1].key>> \o Keys(Tail(d))

\* x in xs
Contains(xs, x) == \E i \in DOMAIN xs : xs[i] = x

\* list(OrderedSet(xs)): xs without its repetitions, in first-appearance order
RECURSIVE OrderedSet(_)
OrderedSet(xs) ==
    IF xs = <<>> THEN <<>>
    ELSE LET front == OrderedSet(SubSeq(xs, 1, Len(xs) - 1))
             x     == xs[Len(xs)]
         IN  IF Contains(front, x) THEN front ELSE Append(front, x)

\* [t for state in states for t in state.action_row]
RECURSIVE ActionRowKeys(_)
ActionRowKeys(states) ==
    IF states = <<>> THEN <<>>
    ELSE Keys(states[1].action_row) \o ActionRowKeys(Tail(states))

\* [nt for state in states for nt in state.ctn_row]
RECURSIVE CtnRowKeys(_)
CtnRowKeys(states) ==
    IF states = <<>> THEN <<>>
    ELSE Keys(states[1].ctn_row) \o CtnRowKeys(Tail(states))

(***************************************************************************)
(* RustParserWriter: the lines each step writes.                           *)
(***************************************************************************)
\* RustParserWriter.write: one line, indented
Line(indentation, formatted) ==
    (CASE indentation = 0 -> ""
       [] indentation = 1 -> "    "
       [] indentation = 2 -> "        "
       [] indentation = 3 -> "            ") \o formatted

\* hex(ERROR), with runtime.ERROR = ACCEPT - 1 = -0x8000000000000000
HexOfERROR == "-0x8000000000000000"

\* repr(t) of a terminal
Repr(t) ==
    IF t = None THEN "None"
    ELSE IF t = ErrorToken THEN "ErrorToken"
    ELSE "'" \o t.text \o "'"

\* state.traceback() or "<empty>"
TracebackOrEmpty(state) ==
    IF state.traceback = "" THEN "<empty>" ELSE state.traceback

HeaderLines ==
    << Line(0, "// WARNING: This file is autogenerated."),
       Line(0, ""),
       Line(0, "use ast::{arena::{Box, Vec}, types::*};"),
       Line(0, "use crate::ast_builder::AstBuilder;"),
       Line(0, "use crate::stack_value_generated::{StackValue, TryIntoStack};"),
       Line(0, "use crate::error::Result;"),
       Line(0, ""),
       Line(0, "const ERROR: i64 = " \o HexOfERROR \o ";"),
       Line(0, "") >>

TerminalIdLines(ts) ==
    << Line(0, "#[derive(Copy, Clone, Debug, PartialEq)]"),
       Line(0, "pub enum TerminalId {") >>
    \o [i \in DOMAIN ts |->
          Line(1, terminal_name(ts[i]) \o " = " \o ToString(i - 1)
                  \o ", // " \o Repr(ts[i]))]
    \o << Line(0, "}"), Line(0, "") >>

TokenLines ==
    << Line(0, "#[derive(Clone, Debug, PartialEq)]"),
       Line(0, "pub struct Token<'a> {"),
       Line(1, "pub terminal_id: TerminalId,"),
       Line(1, "pub saw_newline: bool,"),
       Line(1, "pub value: Option<&'a str>,"),
       Line(0, "}"),
       Line(0, ""),
       Line(0, "impl Token<'_> {"),
       Line(1, "pub fn basic_token(terminal_id: TerminalId) -> Self {"),
       Line(2, "Self {"),
       Line(3, "terminal_id,"),
       Line(3, "saw_newline: false,"),
       Line(3, "value: None,"),
       Line(2, "}"),
       Line(1, "}"),
       Line(0, ""),
       Line(1, "pub fn into_static(self) -> Token<'static> {"),
       Line(2, "Token {"),
       Line(3, "terminal_id: self.terminal_id,"),
       Line(3, "saw_newline: self.saw_newline,"),
       Line(3, "value: None,"),
       Line(2, "}"),
       Line(1, "}"),
       Line(0, "}"),
       Line(0, "") >>

\* ActionCell with the goto table's default in place of the ERROR sentinel.
ActionCellDefaultZero(state, t) ==
    ToString(Get(state.action_row, t, 0)) \o ","

\* "{},".format(state.action_row.get(t, "ERROR"))
ActionCell(state, t) ==
    (IF HasKey(state.action_row, t)
     THEN ToString(Lookup(state.action_row, t))
     ELSE "ERROR") \o ","

ActionRowLine(state, ts) ==
    Line(1, str_join(" ", [j \in DOMAIN ts |-> ActionCell(state, ts[j])]))

RECURSIVE ActionStateLines(_, _, _)
ActionStateLines(states, ts, i) ==
    IF i >= Len(states) THEN <<>>
    ELSE << Line(1, "// " \o ToString(i) \o ". " \o TracebackOrEmpty(states[i + 1])),
            ActionRowLine(states[i + 1], ts) >>
         \o (IF i < Len(states) - 1 THEN << Line(0, "") >> ELSE <<>>)
         \o ActionStateLines(states, ts, i + 1)

ActionsLines(states, ts) ==
    << Line(0, "#[rustfmt::skip]"),
       Line(0, "static ACTIONS: [i64; " \o ToString(Len(states) * Len(ts)) \o "] = [") >>
    \o ActionStateLines(states, ts, 0)
    \o << Line(0, "];"), Line(0, "") >>

\* [s.error_code for s in states]
ErrorCodesOf(states) == [i \in DOMAIN states |-> states[i].error_code]

RECURSIVE ErrorCodeEnumLines(_)
ErrorCodeEnumLines(codes) ==
    IF codes = <<>> THEN <<>>
    ELSE (IF codes[1] # None
          THEN << Line(1, to_camel_case(codes[1].text) \o ",") >>
          ELSE <<>>)
         \o ErrorCodeEnumLines(Tail(codes))

RECURSIVE StateErrorCodeLines(_, _)
StateErrorCodeLines(states, i) ==
    IF i >= Len(states) THEN <<>>
    ELSE << Line(1, "// " \o ToString(i) \o ". " \o TracebackOrEmpty(states[i + 1])),
            IF states[i + 1].error_code = None
            THEN Line(1, "None,")
            ELSE Line(1, "Some(ErrorCode::"
                         \o to_camel_case(states[i + 1].error_code.text) \o "),") >>
         \o StateErrorCodeLines(states, i + 1)

ErrorCodesLines(states) ==
    << Line(0, "#[derive(Clone, Debug, PartialEq)]"),
       Line(0, "pub enum ErrorCode {") >>
    \o ErrorCodeEnumLines(OrderedSet(ErrorCodesOf(states)))
    \o << Line(0, "}"),
          Line(0, ""),
          Line(0, "static STATE_TO_ERROR_CODE: [Option<ErrorCode>; "
                  \o ToString(Len(states)) \o "] = [") >>
    \o StateErrorCodeLines(states, 0)
    \o << Line(0, "];"), Line(0, "") >>

\* check_camel_case: whether the loop raises ValueError, having seen nts[1..i-1]
RECURSIVE CamelCaseCollides(_, _)
CamelCaseCollides(nts, i) ==
    IF i > Len(nts) THEN FALSE
    ELSE \/ \E j \in 1..(i - 1) : nonterminal_to_camel(nts[j]) = nonterminal_to_camel(nts[i])
         \/ CamelCaseCollides(nts, i + 1)

NonterminalIdLines(nts) ==
    << Line(0, "#[derive(Clone, Copy, Debug, PartialEq)]"),
       Line(0, "pub enum NonterminalId {") >>
    \o [i \in DOMAIN nts |->
          Line(1, nonterminal_to_camel(nts[i]) \o " = " \o ToString(i - 1) \o ",")]
    \o << Line(0, "}"), Line(0, "") >>

\* GotoCell with the action table's sentinel in place of the default 0.
GotoCellDefaultError(row, nt) ==
    (IF HasKey(row, nt) THEN ToString(Lookup(row, nt)) ELSE "ERROR") \o ","

\* "{},".format(row.get(nt, 0))
GotoCell(row, nt) == ToString(Get(row, nt, 0)) \o ","

GotoRowLine(state, nts) ==
    Line(1, str_join(" ", [j \in DOMAIN nts |-> GotoCell(state.ctn_row, nts[j])]))

GotoLines(states, nts) ==
    << Line(0, "#[rustfmt::skip]"),
       Line(0, "static GOTO: [u16; " \o ToString(Len(states) * Len(nts)) \o "] = [") >>
    \o [i \in DOMAIN states |-> GotoRowLine(states[i], nts)]
    \o << Line(0, "];"), Line(0, "") >>

(***************************************************************************)
(* reduce: the dispatcher over production indexes.                         *)
(***************************************************************************)
element_type(e, g) ==
    IF e.kind = "str"
    THEN IF HasKey(g.nonterminals, e)
         THEN Raised("NameError")           \* nt_types is not defined
         ELSE IF e.text \in g.variable_terminals
         THEN Returned(TokenType)
         ELSE Returned(UnitType)            \* constant terminal
    ELSE IF e.kind = "Optional"
    THEN Raised("NameError")                \* Type and element_type are not defined
    ELSE IF e.kind = "Nt"
    THEN LET nt_key == IF HasKey(g.nonterminals, e) THEN e ELSE StrOf(e.name)
         IN  IF ~HasKey(g.nonterminals, nt_key) THEN Raised("KeyError")
             ELSE IF Lookup(g.nonterminals, nt_key).type = None
             THEN Raised("AssertionError")
             ELSE Returned(Lookup(g.nonterminals, nt_key).type)
    ELSE Raised("AssertionError")

\* [e for e in prod.rhs if is_concrete_element(e)]
RECURSIVE ConcreteElements(_)
ConcreteElements(rhs) ==
    IF rhs = <<>> THEN <<>>
    ELSE (IF is_concrete_element(rhs[1]) THEN <<rhs[1]>> ELSE <<>>)
         \o ConcreteElements(Tail(rhs))

\* grammar.production_to_str(prod.nt, prod.rhs, prod.reducer): a comment
production_to_str(nt, rhs, reducer) == nt.name \o " ::= ..."

RECURSIVE compile_reduce_expr(_, _)
RECURSIVE CompileArgs(_, _, _)

\* ArgCons with the filter on the declared type left out: every argument is
\* compiled and joins the call.
ArgConsKeepsUnit(ty, first, rest) ==
    [texts |-> <<first.text>> \o rest.texts, used |-> first.used \cup rest.used]

\* One argument of a call joins the compiled arguments unless its declared type
\* is Unit.
ArgCons(ty, first, rest) ==
    IF ty # UnitType
    THEN [texts |-> <<first.text>> \o rest.texts, used |-> first.used \cup rest.used]
    ELSE rest

\* The arguments of a call whose declared type is not Unit, compiled in order;
\* used collects the slots the compiled arguments read.
CompileArgs(argument_types, args, g) ==
    IF args = <<>> THEN [texts |-> <<>>, used |-> {}]
    ELSE ArgCons(argument_types[1], compile_reduce_expr(args[1], g),
                 CompileArgs(Tail(argument_types), Tail(args), g))

\* FallibleSuffix with the hack left out: no call is marked.
FallibleSuffixNever(method_name) == ""

\* call += "?" for the methods the builder declares fallible
FallibleSuffix(method_name) ==
    IF method_name \in FALLIBLE_METHOD_NAMES THEN "?" ELSE ""

\* "handler.{}({})".format(method_name, args), and the hack after it
CompileCall(method_name, args) ==
    [text |-> "handler." \o method_name \o "(" \o str_join(", ", args.texts) \o ")"
              \o FallibleSuffix(method_name),
     used |-> args.used]

\* "Some({})".format(compile_reduce_expr(expr.inner))
CompileSome(inner) == [text |-> "Some(" \o inner.text \o ")", used |-> inner.used]

\* Compile a reduce expression to Rust: its text, and the slots marked in
\* variable_used.
compile_reduce_expr(expr, g) ==
    IF expr.kind = "CallMethod"
    THEN CompileCall(method_name_to_rust(expr.method),
                     CompileArgs(Lookup(g.methods, expr.method).argument_types,
                                 expr.args, g))
    ELSE IF expr.kind = "Some"
    THEN CompileSome(compile_reduce_expr(expr.inner, g))
    ELSE IF expr = None
    THEN [text |-> "None", used |-> {}]
    ELSE [text |-> "x" \o ToString(expr.value), used |-> {expr.value}]

\* is_trivial_reduction without the shortcut: every reduction pops and pushes.
is_trivial_never(elements, reducer) == FALSE

is_trivial_reduction(elements, reducer) ==
    Len(elements) = 1 /\ reducer = IntExpr(0)

is_discarding_reduction(reducer) == reducer.kind = "int"

\* Lines written with no exception.
Wrote(lines) == [lines |-> lines, error |-> ""]

\* Statements in sequence: what a wrote, then what b wrote, unless a raised.
Then(a, b) ==
    IF a.error # "" THEN a
    ELSE [lines |-> a.lines \o b.lines, error |-> b.error]

\* rust_ty = self.type_to_rust(ty, "", boxed=True), for the ty element_type gave
RustTypeOf(ty) ==
    IF ~ty.ok THEN ty ELSE type_to_rust(ty.value, "", TRUE)

\* The binding of a slot the reducer reads: without a downcast in a discarding
\* reduction, with the downcast to the slot's boxed type otherwise.
UsedPop(index, discarding, rust_ty) ==
    IF ~rust_ty.ok THEN [lines |-> <<>>, error |-> rust_ty.error]
    ELSE IF discarding
    THEN Wrote(<< Line(3, "let x" \o ToString(index) \o " = stack.pop().unwrap();") >>)
    ELSE Wrote(<< Line(3, "let x" \o ToString(index) \o ": " \o rust_ty.value
                          \o " = stack.pop().unwrap().to_ast();") >>)

\* PopLine with variable_used never consulted: every slot is dropped.
PopLineDropsAll(e, index, variable_used, discarding, g) ==
    Wrote(<< Line(3, "stack.pop();") >>)

\* The body of the loop over the slots, for slot index holding element e.
PopLine(e, index, variable_used, discarding, g) ==
    IF index \in variable_used
    THEN UsedPop(index, discarding, RustTypeOf(element_type(e, g)))
    ELSE Wrote(<< Line(3, "stack.pop();") >>)

\* The loop over reversed(list(enumerate(elements))), from slot index down to
\* slot 0: the lines written, and the exception that ended the loop, if any.
RECURSIVE PopLines(_, _, _, _, _)
PopLines(elements, variable_used, discarding, g, index) ==
    IF index < 0 THEN Wrote(<<>>)
    ELSE Then(PopLine(elements[index + 1], index, variable_used, discarding, g),
              PopLines(elements, variable_used, discarding, g, index - 1))

\* stack.push(...) of the compiled expression
PushLine(discarding, compiled) ==
    IF discarding
    THEN Line(3, "stack.push(" \o compiled.text \o ");")
    ELSE Line(3, "stack.push(TryIntoStack::try_into_stack(" \o compiled.text \o ")?);")

\* if not is_trivial_reduction: the pops, then the push
ReduceBody(elements, reducer, compiled, g) ==
    IF is_trivial_reduction(elements, reducer) THEN Wrote(<<>>)
    ELSE Then(PopLines(elements, compiled.used, is_discarding_reduction(reducer),
                       g, Len(elements) - 1),
              Wrote(<< PushLine(is_discarding_reduction(reducer), compiled) >>))

\* The body of the loop over self.prods for production i (counted from 0).
ReduceBranch(i, prod, g) ==
    Then(Then(Wrote(<< Line(2, ToString(i) \o " => {"),
                       Line(3, "// " \o production_to_str(prod.nt, prod.rhs, prod.reducer)) >>),
              ReduceBody(ConcreteElements(prod.rhs), prod.reducer,
                         compile_reduce_expr(prod.reducer, g), g)),
         Wrote(<< Line(3, "Ok(NonterminalId::" \o nonterminal_to_camel(prod.nt) \o ")"),
                  Line(2, "}") >>))

\* The loop over enumerate(self.prods), from production i on.
RECURSIVE ReduceBranches(_, _, _, _)
ReduceBranches(prods, nts, g, i) ==
    IF i >= Len(prods) THEN Wrote(<<>>)
    ELSE IF Contains(nts, prods[i + 1].nt)
    THEN Then(ReduceBranch(i, prods[i + 1], g), ReduceBranches(prods, nts, g, i + 1))
    ELSE ReduceBranches(prods, nts, g, i + 1)

ReduceHead ==
    << Line(0, "pub fn reduce<'alloc>("),
       Line(1, "handler: &AstBuilder<'alloc>,"),
       Line(1, "prod: usize,"),
       Line(1, "stack: &mut std::vec::Vec<StackValue<'alloc>>,"),
       Line(0, ") -> Result<'alloc, NonterminalId> {"),
       Line(1, "match prod {") >>

ReduceTail ==
    << Line(2, "_ => panic!(\"no such production: {}\", prod),"),
       Line(1, "}"),
       Line(0, "}"),
       Line(0, "") >>

\* reduce(): the lines written, and the exception that ended it, if any.
ReduceLines(prods, nts, g) ==
    Then(Then(Wrote(ReduceHead), ReduceBranches(prods, nts, g, 0)), Wrote(ReduceTail))

\* [prod for prod in self.prods if prod.nt in self.nonterminals]
RECURSIVE LiveProds(_, _)
LiveProds(prods, nts) ==
    IF prods = <<>> THEN <<>>
    ELSE (IF Contains(nts, prods[1].nt) THEN <<prods[1]>> ELSE <<>>)
         \o LiveProds(Tail(prods), nts)

ReduceSimulatorLines(prods, nts) ==
    LET live == LiveProds(prods, nts)
    IN  << Line(0, "static REDUCE_SIMULATOR: [(usize, NonterminalId); "
                   \o ToString(Len(live)) \o "] = [") >>
        \o [k \in DOMAIN live |->
              Line(1, "(" \o ToString(Len(ConcreteElements(live[k].rhs)))
                      \o ", NonterminalId::" \o nonterminal_to_camel(live[k].nt) \o "),")]
        \o << Line(0, "];"), Line(0, "") >>

\* The loop over init_state_map.items() in entry(), from entry k on.
RECURSIVE StartStateLines(_, _)
StartStateLines(init_state_map, k) ==
    IF k > Len(init_state_map) THEN [lines |-> <<>>, error |-> ""]
    ELSE IF init_state_map[k].key.args # <<>>
    THEN [lines |-> <<>>, error |-> "AssertionError"]
    ELSE LET rest == StartStateLines(init_state_map, k + 1)
         IN  [lines |-> << Line(0, "pub static START_STATE_"
                                   \o str_upper(to_snek_case(init_state_map[k].key.name))
                                   \o ": usize = " \o ToString(init_state_map[k].value) \o ";"),
                           Line(0, "") >> \o rest.lines,
              error |-> rest.error]

EntryLines(states, ts, nts, init_state_map) ==
    LET starts == StartStateLines(init_state_map, 1)
    IN  [lines |->
          << Line(0, "#[derive(Clone, Copy)]"),
             Line(0, "pub struct ParserTables<'a> {"),
             Line(1, "pub state_count: usize,"),
             Line(1, "pub action_table: &'a [i64],"),
             Line(1, "pub action_width: usize,"),
             Line(1, "pub error_codes: &'a [Option<ErrorCode>],"),
             Line(1, "pub reduce_simulator: &'a [(usize, NonterminalId)],"),
             Line(1, "pub goto_table: &'a [u16],"),
             Line(1, "pub goto_width: usize,"),
             Line(0, "}"),
             Line(0, ""),
             Line(0, "impl<'a> ParserTables<'a> {"),
             Line(1, "pub fn check(&self) {"),
             Line(2, "assert_eq!("),
             Line(3, "self.action_table.len(),"),
             Line(3, "(self.state_count * self.action_width) as usize"),
             Line(2, ");"),
             Line(2, "assert_eq!(self.goto_table.len(), (self.state_count * self.goto_width) as usize);"),
             Line(1, "}"),
             Line(0, "}"),
             Line(0, ""),
             Line(0, "pub static TABLES: ParserTables<'static> = ParserTables {"),
             Line(1, "state_count: " \o ToString(Len(states)) \o ","),
             Line(1, "action_table: &ACTIONS,"),
             Line(1, "action_width: " \o ToString(Len(ts)) \o ","),
             Line(1, "error_codes: &STATE_TO_ERROR_CODE,"),
             Line(1, "reduce_simulator: &REDUCE_SIMULATOR,"),
             Line(1, "goto_table: &GOTO,"),
             Line(1, "goto_width: " \o ToString(Len(nts)) \o ","),
             Line(0, "};"),
             Line(0, "") >> \o starts.lines,
         error |-> starts.error]

(***************************************************************************)
(* write_python_parser: the lines the interpreted emitter writes.          *)
(***************************************************************************)
\* Nt.pretty(): the display name of a nonterminal
RECURSIVE PrettyArgs(_)
PrettyArgs(args) ==
    IF args = <<>> THEN <<>>
    ELSE <<(IF args[1].value THEN "+" ELSE "~") \o args[1].name>> \o PrettyArgs(Tail(args))

pretty(nt) ==
    IF nt.args = <<>> THEN nt.name
    ELSE nt.name \o "[" \o str_join(", ", PrettyArgs(nt.args)) \o "]"

\* repr(state.action_row)
ReprActionRow(row) ==
    "{" \o str_join(", ", [i \in DOMAIN row |->
                             Repr(row[i].key) \o ": " \o ToString(row[i].value)])
    \o "}"

\* repr({nt.pretty(): state_id for nt, state_id in state.ctn_row.items()})
ReprCtnRow(row) ==
    "{" \o str_join(", ", [i \in DOMAIN row |->
                             "'" \o pretty(row[i].key) \o "': " \o ToString(row[i].value)])
    \o "}"

SLICE_LEN == 16

\* The loop over range(0, len(states), SLICE_LEN), from state i on.
RECURSIVE PyErrorCodeLines(_, _)
PyErrorCodeLines(states, i) ==
    IF i >= Len(states) THEN <<>>
    ELSE LET last  == IF i + SLICE_LEN < Len(states) THEN i + SLICE_LEN ELSE Len(states)
             slice == SubSeq(states, i + 1, last)
         IN  << "    " \o str_join(" ", [k \in DOMAIN slice |->
                                           Repr(slice[k].error_code) \o ","]) >>
             \o PyErrorCodeLines(states, i + SLICE_LEN)

\* Compile a reduce expression to Python.
RECURSIVE py_compile_reduce_expr(_)
py_compile_reduce_expr(expr) ==
    IF expr.kind = "CallMethod"
    THEN LET method_name == str_replace(expr.method, " ", "_P")
         IN  "builder." \o method_name \o "("
             \o str_join(", ", [k \in DOMAIN expr.args |->
                                  py_compile_reduce_expr(expr.args[k])])
             \o ")"
    ELSE IF expr.kind = "Some"
    THEN py_compile_reduce_expr(expr.inner)
    ELSE IF expr = None
    THEN "None"
    ELSE "x" \o ToString(expr.value)

\* ", ".join("x" + str(i) for i in range(n))
ParamNames(n) == str_join(", ", [k \in 1..n |-> "x" \o ToString(k - 1)])

\* One entry of the reductions list, for production prod_index (from 0).
PyReduction(prod_index, prod) ==
    LET nparams == Len(ConcreteElements(prod.rhs))
        fn      == "lambda builder, " \o ParamNames(nparams) \o ": "
                   \o py_compile_reduce_expr(prod.reducer)
    IN  << "    # " \o ToString(prod_index) \o ". "
                \o production_to_str(prod.nt, prod.rhs, prod.reducer),
           "    ('" \o pretty(prod.nt) \o "', " \o ToString(nparams) \o ", " \o fn \o ")," >>

RECURSIVE PyReductionLines(_, _)
PyReductionLines(prods, prod_index) ==
    IF prod_index >= Len(prods) THEN <<>>
    ELSE (IF prods[prod_index + 1].nt.init
          THEN <<>>
          ELSE PyReduction(prod_index, prods[prod_index + 1]))
         \o PyReductionLines(prods, prod_index + 1)

\* One method of the DefaultBuilder class.
PyBuilderMethod(tag, method_type) ==
    LET method_name == str_replace(tag, " ", "_P")
        args        == ParamNames(Len(method_type.argument_types))
    IN  "    def " \o method_name \o "(self, " \o args \o "): return ('"
        \o tag \o "', " \o args \o ")"

PythonLines(ps) ==
    LET g      == ps.grammar
        states == ps.states
        single == Len(ps.init_state_map) = 1
    IN  << "from jsparagus import runtime" >>
        \o (IF \E i \in DOMAIN g.nonterminals : g.nonterminals[i].key.kind = "Nt"
            THEN << "from jsparagus.runtime import Nt, ErrorToken" >>
            ELSE <<>>)
        \o << "", "actions = [" >>
        \o [k \in 1..(3 * Len(states)) |->
              LET i == (k - 1) \div 3
              IN  CASE k % 3 = 1 -> "    # " \o ToString(i) \o ". "
                                    \o TracebackOrEmpty(states[i + 1])
                    [] k % 3 = 2 -> "    " \o ReprActionRow(states[i + 1].action_row) \o ","
                    [] k % 3 = 0 -> ""]
        \o << "]", "", "ctns = [" >>
        \o [i \in DOMAIN states |-> "    " \o ReprCtnRow(states[i].ctn_row) \o ","]
        \o << "]", "", "error_codes = [" >>
        \o PyErrorCodeLines(states, 0)
        \o << "]", "", "reductions = [" >>
        \o PyReductionLines(ps.prods, 0)
        \o << "]", "", "", "class DefaultBuilder:" >>
        \o [i \in DOMAIN g.methods |->
              PyBuilderMethod(g.methods[i].key, g.methods[i].value)]
        \o << "", "", "goal_nt_to_init_state = {" >>
        \o [i \in DOMAIN ps.init_state_map |->
              "    '" \o ps.init_state_map[i].key.name \o "': "
              \o ToString(ps.init_state_map[i].value) \o ","]
        \o << "}", "",
              "class Parser(runtime.Parser):",
              "    def __init__(self, goal"
                  \o (IF single
                      THEN "='" \o ps.init_state_map[1].key.name \o "'"
                      ELSE "")
                  \o ", builder=None):",
              "        if builder is None:",
              "            builder = DefaultBuilder()",
              "        super().__init__(actions, ctns, reductions, error_codes,",
              "                         goal_nt_to_init_state[goal], builder)",
              "" >>

(***************************************************************************)
(* The inputs: the bounds, and the IRs the emitters are run on.            *)
(***************************************************************************)
MaxStates == 2      \* automaton states of an IR

MaxProds == 2       \* productions of an IR whose list of productions varies

MaxNodes == 3       \* nodes of a generated reduction expression

MaxTypeNodes == 3   \* nodes of a generated type

\* The sequences over S of lo to hi elements
SeqsOf(S, lo, hi) == UNION {[1..k -> S] : k \in lo..hi}

Entry(key, value) == [key |-> key, value |-> value]

TExpr == Type("Expr", <<>>)

nExpr == Nt("expr", <<>>)

nList == Nt("ArgumentList", <<>>)

nInit == Nt("Initializer", <<>>)

nStmt == Nt("Statement", <<>>)

nFooBar == Nt("FooBar", <<>>)

nFoo_bar == Nt("foo_bar", <<>>)

nFooArg == Nt("foo", <<[name |-> "Bar", value |-> TRUE], [name |-> "In", value |-> FALSE]>>)

MethodType(argument_types, return_type) ==
    [argument_types |-> argument_types, return_type |-> return_type]

\* The grammar every IR of the model carries.
TheGrammar ==
    [ methods |->
        << Entry("AssignmentExpression", MethodType(<<TExpr>>, TExpr)),
           Entry("UnaryExpression", MethodType(<<TExpr>>, TExpr)),
           Entry("PreIncrementExpr 1", MethodType(<<TExpr>>, TExpr)),
           Entry("CompoundAssignmentExpression", MethodType(<<UnitType, TExpr>>, TExpr)) >>,
      nonterminals |->
        << Entry(nExpr, [type |-> TExpr]),
           Entry(nList, [type |-> Type("Vec", <<TExpr>>)]),
           Entry(nInit, [type |-> Type("Option", <<TExpr>>)]),
           Entry(nStmt, [type |-> Type("Statement", <<>>)]),
           Entry(nFooBar, [type |-> TExpr]),
           Entry(nFoo_bar, [type |-> TExpr]),
           Entry(nFooArg, [type |-> TExpr]),
           Entry(StrOf("Block"), [type |-> Type("Block", <<>>)]) >>,
      variable_terminals |-> {"NUM"} ]

\* The action part of a state: the row, the error code and the trace.
ActionParts ==
    { [action_row |-> <<>>, error_code |-> None, traceback |-> ""],
      [action_row |-> <<Entry(StrOf("let"), 1), Entry(StrOf("Let"), 0)>>,
       error_code |-> None, traceback |-> ""],
      [action_row |-> <<Entry(StrOf("NUM"), 1), Entry(None, -1)>>,
       error_code |-> StrOf("asi"), traceback |-> "expr"],
      [action_row |-> <<Entry(StrOf("+"), 0), Entry(ErrorToken, -2), Entry(StrOf("NUM"), 2)>>,
       error_code |-> StrOf("NoLineTerminator"), traceback |-> "expr + NUM"] }

CtnRows ==
    { <<>>,
      <<Entry(nExpr, 1)>>,
      <<Entry(nFooBar, 1), Entry(nExpr, 0)>>,
      <<Entry(nFoo_bar, 1), Entry(nList, 1)>>,
      <<Entry(nExpr, 1), Entry(nFooArg, 0)>> }

\* States whose action part varies, and states whose goto row varies.
StateChoices ==
    { [action_row |-> a.action_row, ctn_row |-> <<Entry(nExpr, 1)>>,
       error_code |-> a.error_code, traceback |-> a.traceback] : a \in ActionParts }
    \cup
    { [action_row |-> <<Entry(StrOf("NUM"), 1)>>, ctn_row |-> c,
       error_code |-> None, traceback |-> ""] : c \in CtnRows }

Prod(nt, rhs, reducer) == [nt |-> nt, rhs |-> rhs, reducer |-> reducer]

\* Whether slot i of elements holds a constant terminal (a value of type Unit).
SlotIsUnit(elements, i, g) ==
    /\ elements[i + 1].kind = "str"
    /\ ~HasKey(g.nonterminals, elements[i + 1])
    /\ elements[i + 1].text \notin g.variable_terminals

\* The IR's invariant on a reduction expression: an argument that is kept (its
\* declared type is not Unit) and is a slot reference names a slot whose value is
\* not of type Unit.
RECURSIVE WellTyped(_, _, _)
WellTyped(expr, elements, g) ==
    IF expr.kind = "CallMethod"
    THEN LET tys == Lookup(g.methods, expr.method).argument_types
         IN  \A k \in DOMAIN expr.args :
                /\ WellTyped(expr.args[k], elements, g)
                /\ (tys[k] # UnitType /\ expr.args[k].kind = "int")
                       => ~SlotIsUnit(elements, expr.args[k].value, g)
    ELSE IF expr.kind = "Some"
    THEN WellTyped(expr.inner, elements, g)
    ELSE TRUE

\* The reduction expressions of exactly k nodes over slots 0..n-1.
RECURSIVE ExprsOfSize(_, _, _)
RECURSIVE ArgLists(_, _, _, _)

\* The lists of r expressions of k nodes in all.
ArgLists(r, k, n, g) ==
    IF r = 0 THEN (IF k = 0 THEN {<<>>} ELSE {})
    ELSE UNION { { <<a>> \o rest : a \in ExprsOfSize(i, n, g),
                                   rest \in ArgLists(r - 1, k - i, n, g) }
                 : i \in 1..(k - (r - 1)) }

ExprsOfSize(k, n, g) ==
    LET calls == UNION { { CallMethod(g.methods[m].key, args) :
                              args \in ArgLists(Len(g.methods[m].value.argument_types),
                                                k - 1, n, g) }
                         : m \in DOMAIN g.methods }
    IN  IF k = 1
        THEN {IntExpr(i) : i \in 0..(n - 1)} \cup {None} \cup calls
        ELSE {Some(e) : e \in ExprsOfSize(k - 1, n, g)} \cup calls

\* The well-formed reduction expressions of at most MaxNodes nodes for rhs.
Reducers(rhs, g) ==
    LET elements == ConcreteElements(rhs)
    IN  { e \in UNION {ExprsOfSize(k, Len(elements), g) : k \in 1..MaxNodes} :
            WellTyped(e, elements, g) }

RhsChoices ==
    { <<>>,
      <<nExpr>>,
      <<nExpr, StrOf("NUM")>>,
      <<StrOf("+"), nList>>,
      <<Optional(nExpr)>>,
      <<nInit, LookaheadRule>>,
      <<nExpr, StrOf("Block")>> }

\* Productions for the IRs whose list of productions varies.
ProdChoices ==
    { Prod(nExpr, <<nExpr, StrOf("+"), StrOf("NUM")>>,
           CallMethod("CompoundAssignmentExpression", <<IntExpr(1), IntExpr(0)>>)),
      Prod(nExpr, <<nList>>, IntExpr(0)),
      Prod(nList, <<StrOf("+"), nExpr>>, IntExpr(1)),
      Prod(nStmt, <<nExpr>>, CallMethod("UnaryExpression", <<IntExpr(0)>>)),
      Prod(nExpr, <<Optional(nExpr)>>, CallMethod("AssignmentExpression", <<IntExpr(0)>>)),
      Prod(nList, <<>>, None),
      Prod(nExpr, <<Optional(nExpr), StrOf("NUM")>>, IntExpr(0)),
      Prod(InitNt("Script"), <<nExpr>>, IntExpr(0)) }

LiveAll ==
    << [action_row |-> <<Entry(StrOf("NUM"), 1)>>,
        ctn_row |-> <<Entry(nExpr, 1), Entry(nList, 0), Entry(nStmt, 1)>>,
        error_code |-> None, traceback |-> ""] >>

LiveSome ==
    << [action_row |-> <<Entry(StrOf("NUM"), 1)>>,
        ctn_row |-> <<Entry(nList, 0), Entry(nExpr, 1)>>,
        error_code |-> None, traceback |-> ""] >>

IR(states, prods) ==
    [ grammar |-> TheGrammar, states |-> states, prods |-> prods,
      init_state_map |-> <<Entry(Nt("Script", <<>>), 0)>> ]

\* The IRs: the automaton varies; one production varies; the list of
\* productions varies.
ParserStates ==
    { IR(states, << Prod(nExpr, <<nExpr, StrOf("+"), StrOf("NUM")>>,
                         CallMethod("CompoundAssignmentExpression",
                                    <<IntExpr(1), IntExpr(0)>>)) >>)
        : states \in SeqsOf(StateChoices, 1, MaxStates) }
    \cup UNION { { IR(LiveAll, <<Prod(nExpr, rhs, reducer)>>)
                     : reducer \in Reducers(rhs, TheGrammar) }
                 : rhs \in RhsChoices }
    \cup { IR(states, prods) : states \in {LiveAll, LiveSome},
                               prods \in SeqsOf(ProdChoices, 1, MaxProds) }

(***************************************************************************)
(* The emitters, step by step.                                             *)
(***************************************************************************)
NoCall == [fn |-> ""]

\* write_rust_parser / write_python_parser, entered with the IR; for the
\* compiled emitter RustParserWriter.__init__ has run.
Init ==
    /\ target \in {"rust", "python"}
    /\ parser_states \in ParserStates
    /\ terminals = IF target = "rust"
                   THEN OrderedSet(ActionRowKeys(parser_states.states)) ELSE <<>>
    /\ nonterminals = IF target = "rust"
                      THEN OrderedSet(CtnRowKeys(parser_states.states)) ELSE <<>>
    /\ pc = IF target = "rust" THEN "header" ELSE "write_python_parser"
    /\ out = <<>>
    /\ error = ""
    /\ pure_call = NoCall
    /\ pure_result = NoCall

Chunk(by, lines) == [by |-> by, lines |-> lines]

\* What a step of emit() that cannot fail leaves behind: its lines in the output.
Writes(step, lines, next) ==
    /\ out' = Append(out, Chunk(step, lines))
    /\ pc' = next
    /\ UNCHANGED <<target, parser_states, terminals, nonterminals, error, pure_call, pure_result>>

\* What a step of emit() that may raise leaves behind: the lines it wrote before
\* it returned or raised, and the exception.
WritesOrRaises(step, r, next) ==
    /\ out' = Append(out, Chunk(step, r.lines))
    /\ error' = r.error
    /\ pc' = IF r.error # "" THEN "raised" ELSE next
    /\ UNCHANGED <<target, parser_states, terminals, nonterminals, pure_call, pure_result>>

header ==
    /\ target = "rust"
    /\ pc = "header"
    /\ Writes("header", HeaderLines, "terminal_id")

terminal_id ==
    /\ target = "rust"
    /\ pc = "terminal_id"
    /\ Writes("terminal_id", TerminalIdLines(terminals), "token")

token ==
    /\ target = "rust"
    /\ pc = "token"
    /\ Writes("token", TokenLines, "actions")

actions ==
    /\ target = "rust"
    /\ pc = "actions"
    /\ Writes("actions", ActionsLines(parser_states.states, terminals), "error_codes")

error_codes ==
    /\ target = "rust"
    /\ pc = "error_codes"
    /\ Writes("error_codes", ErrorCodesLines(parser_states.states), "check_camel_case")

check_camel_case ==
    /\ target = "rust"
    /\ pc = "check_camel_case"
    /\ IF CamelCaseCollides(nonterminals, 1)
       THEN error' = "ValueError" /\ pc' = "raised"
       ELSE error' = error /\ pc' = "nonterminal_id"
    /\ UNCHANGED <<target, parser_states, terminals, nonterminals, out, pure_call, pure_result>>

nonterminal_id ==
    /\ target = "rust"
    /\ pc = "nonterminal_id"
    /\ Writes("nonterminal_id", NonterminalIdLines(nonterminals), "goto")

goto ==
    /\ target = "rust"
    /\ pc = "goto"
    /\ Writes("goto", GotoLines(parser_states.states, nonterminals), "reduce")

reduce ==
    /\ target = "rust"
    /\ pc = "reduce"
    /\ WritesOrRaises("reduce",
                      ReduceLines(parser_states.prods, nonterminals, parser_states.grammar),
                      "reduce_simulator")

reduce_simulator ==
    /\ target = "rust"
    /\ pc = "reduce_simulator"
    /\ Writes("reduce_simulator",
              ReduceSimulatorLines(parser_states.prods, nonterminals), "entry")

entry ==
    /\ target = "rust"
    /\ pc = "entry"
    /\ WritesOrRaises("entry",
                      EntryLines(parser_states.states, terminals, nonterminals,
                                 parser_states.init_state_map),
                      "done")

write_python_parser ==
    /\ target = "python"
    /\ pc = "write_python_parser"
    /\ out' = Append(out, Chunk("write_python_parser", PythonLines(parser_states)))
    /\ pc' = "done"
    /\ UNCHANGED <<target, parser_states, terminals, nonterminals, error, pure_call, pure_result>>

Next ==
    \/ header
    \/ terminal_id
    \/ token
    \/ actions
    \/ error_codes
    \/ check_camel_case
    \/ nonterminal_id
    \/ goto
    \/ reduce
    \/ reduce_simulator
    \/ entry
    \/ write_python_parser

Spec == Init /\ [][Next]_vars

(***************************************************************************)
(* Reading the output back.                                                *)
(***************************************************************************)
HasChunk(step) == \E i \in DOMAIN out : out[i].by = step

\* The lines the step wrote.
ChunkOf(step) == out[CHOOSE i \in DOMAIN out : out[i].by = step].lines

StartsWith(s, prefix) ==
    Len(s) >= Len(prefix) /\ SubSeq(s, 1, Len(prefix)) = prefix

EndsWith(s, suffix) ==
    Len(s) >= Len(suffix) /\ SubSeq(s, Len(s) - Len(suffix) + 1, Len(s)) = suffix

\* The positions of s where the text w starts.
Occurrences(s, w) ==
    {p \in 1..(Len(s) - Len(w) + 1) : SubSeq(s, p, p + Len(w) - 1) = w}

\* A line of a table: indented once, and not a comment.
IsRowLine(l) == StartsWith(l, "    ") /\ ~StartsWith(l, "    //")

\* The cells of a table line, without its indentation.
RowCells(l) ==
    IF Len(l) = 4 THEN <<>> ELSE str_split(SubSeq(l, 5, Len(l)), " ")

RowLinesOf(lines) == SelectSeq(lines, IsRowLine)

\* The cells of a table, row after row.
RECURSIVE CellsOfLines(_)
CellsOfLines(lines) ==
    IF lines = <<>> THEN <<>>
    ELSE (IF IsRowLine(lines[1]) THEN RowCells(lines[1]) ELSE <<>>)
         \o CellsOfLines(Tail(lines))

\* Where key t first appears in the rows read state by state: <<state, place>>.
FirstSeenIn(rows, t) ==
    LET s == CHOOSE s \in DOMAIN rows :
                /\ HasKey(rows[s], t)
                /\ \A r \in 1..(s - 1) : ~HasKey(rows[r], t)
        k == CHOOSE k \in DOMAIN rows[s] : rows[s][k].key = t
    IN  <<s, k>>

\* keys lists every key of the rows once, in order of first appearance.
InFirstAppearanceOrder(keys, rows) ==
    /\ \A i \in DOMAIN keys : \E s \in DOMAIN rows : HasKey(rows[s], keys[i])
    /\ \A s \in DOMAIN rows : \A k \in DOMAIN rows[s] :
          \E i \in DOMAIN keys : keys[i] = rows[s][k].key
    /\ \A i, j \in DOMAIN keys :
          i < j => LET a == FirstSeenIn(rows, keys[i])
                       b == FirstSeenIn(rows, keys[j])
                   IN  /\ keys[i] # keys[j]
                       /\ a[1] < b[1] \/ (a[1] = b[1] /\ a[2] < b[2])

(***************************************************************************)
(* Properties of the emitters, under Spec.                                 *)
(***************************************************************************)
\* Two distinct nonterminals of the goto rows have the same camel-case name.
CamelCollision ==
    \E i, j \in DOMAIN nonterminals :
        /\ i # j
        /\ nonterminal_to_camel(nonterminals[i]) = nonterminal_to_camel(nonterminals[j])

\* C1: whenever two distinct nonterminals of the goto rows have the same
\* camel-case name, compiled generation fails (it never gets past the check),
\* and when it has failed nothing has been written to the output.
C1_CollisionFailsBeforeOutput ==
    (target = "rust" /\ CamelCollision) =>
        /\ pc \notin {"nonterminal_id", "goto", "reduce", "reduce_simulator",
                      "entry", "done"}
        /\ pc = "raised" => (error = "ValueError" /\ out = <<>>)

\* C4: the ACTIONS table declares and holds state_count * terminal_count cells,
\* one row per state in state order, one column per terminal in order of first
\* appearance; cell (s, t) is action_row[t] of state s when t is in that row and
\* ERROR otherwise.
C4_ActionsTable ==
    HasChunk("actions") =>
        LET lines  == ChunkOf("actions")
            states == parser_states.states
            S      == Len(states)
            T      == Len(terminals)
            cells  == CellsOfLines(lines)
        IN  /\ InFirstAppearanceOrder(terminals,
                                      [s \in DOMAIN states |-> states[s].action_row])
            /\ lines[2] = "static ACTIONS: [i64; " \o ToString(S * T) \o "] = ["
            /\ Len(RowLinesOf(lines)) = S
            /\ Len(cells) = S * T
            /\ \A s \in 1..S : \A t \in 1..T :
                  cells[(s - 1) * T + t] =
                     IF HasKey(states[s].action_row, terminals[t])
                     THEN ToString(Lookup(states[s].action_row, terminals[t])) \o ","
                     ELSE "ERROR,"

C4_Witness ==
    /\ pc = "error_codes"
    /\ Len(parser_states.states) = 2
    /\ terminals = <<StrOf("NUM"), None, StrOf("+"), ErrorToken>>
    /\ RowLinesOf(ChunkOf("actions")) = << "    1, -1, ERROR, ERROR,", "    2, ERROR, 0, -2," >>

\* C5: the GOTO table declares and holds state_count * live_nonterminal_count
\* cells, one row per state in state order, one column per live nonterminal;
\* cell (s, N) is the goto target of N in state s when N is in the goto row of s
\* and 0 otherwise.
C5_GotoTable ==
    HasChunk("goto") =>
        LET lines  == ChunkOf("goto")
            states == parser_states.states
            S      == Len(states)
            N      == Len(nonterminals)
            cells  == CellsOfLines(lines)
        IN  /\ InFirstAppearanceOrder(nonterminals,
                                      [s \in DOMAIN states |-> states[s].ctn_row])
            /\ lines[2] = "static GOTO: [u16; " \o ToString(S * N) \o "] = ["
            /\ Len(RowLinesOf(lines)) = S
            /\ Len(cells) = S * N
            /\ \A s \in 1..S : \A n \in 1..N :
                  cells[(s - 1) * N + n] =
                     IF HasKey(states[s].ctn_row, nonterminals[n])
                     THEN ToString(Lookup(states[s].ctn_row, nonterminals[n])) \o ","
                     ELSE "0,"

C5_Witness ==
    /\ pc = "reduce"
    /\ Len(parser_states.states) = 2
    /\ nonterminals = <<nExpr, nFoo_bar, nList>>
    /\ RowLinesOf(ChunkOf("goto")) = << "    1, 0, 0,", "    0, 1, 1," >>

\* The position of the first line at or after position p that starts with
\* prefix; 0 if there is none.
IndexOfPrefix(lines, prefix, p) ==
    LET found == {k \in p..Len(lines) : StartsWith(lines[k], prefix)}
    IN  IF p = 0 \/ found = {} THEN 0
        ELSE CHOOSE k \in found : \A j \in found : k <= j

\* The branch of production i (counted from 0) among the lines reduce wrote:
\* from its "i => {" to the "}" that closes it; empty when it is not there, or
\* not closed.
BranchOf(lines, i) ==
    LET first == IndexOfPrefix(lines, "        " \o ToString(i) \o " => {", 1)
        last  == IF first = 0 THEN 0 ELSE IndexOfPrefix(lines, "        }", first + 1)
    IN  IF last = 0 THEN <<>> ELSE SubSeq(lines, first, last)

\* prod.nt in self.nonterminals
IsLive(prod) == \E n \in DOMAIN nonterminals : nonterminals[n] = prod.nt

\* The stack slots of a production: its concrete right-hand-side elements.
SlotCount(prod) == Cardinality({k \in DOMAIN prod.rhs : prod.rhs[k] # LookaheadRule})

IsTrivial(prod) == SlotCount(prod) = 1 /\ prod.reducer = IntExpr(0)

\* Slot k popped, downcast to an annotated type and bound.
IsDowncast(line, k) ==
    /\ StartsWith(line, "            let x" \o ToString(k) \o ": ")
    /\ EndsWith(line, " = stack.pop().unwrap().to_ast();")

\* Slot k popped and bound as it is.
IsPlainBinding(line, k) ==
    line = "            let x" \o ToString(k) \o " = stack.pop().unwrap();"

\* Slot popped and dropped.
IsDiscard(line) == line = "            stack.pop();"

\* The shape of a complete branch b of prod: one pop per slot from the highest
\* index down to 0, bound exactly when the pushed expression reads it, then one
\* push and the nonterminal id. With plain set, the slot a bare slot reference
\* reads is bound without a downcast.
BranchShape(b, prod, plain) ==
    LET n == SlotCount(prod)
    IN  IF Len(b) # n + 5 THEN FALSE
        ELSE /\ \A j \in 1..n :
                   LET k == n - j
                   IN  IF Occurrences(b[n + 3], "x" \o ToString(k)) # {}
                       THEN IF plain /\ prod.reducer.kind = "int"
                            THEN IsPlainBinding(b[2 + j], k)
                            ELSE IsDowncast(b[2 + j], k)
                       ELSE IsDiscard(b[2 + j])
             /\ StartsWith(b[n + 3], "            stack.push(")
             /\ EndsWith(b[n + 3], ");")
             /\ b[n + 4] = "            Ok(NonterminalId::"
                           \o nonterminal_to_camel(prod.nt) \o ")"
             /\ b[n + 5] = "        }"

\* Every live production that is not trivial has its branch once reduce has
\* returned, and every such branch that is complete has the shape.
BranchesHaveShape(plain) ==
    HasChunk("reduce") =>
        \A i \in DOMAIN parser_states.prods :
            LET prod == parser_states.prods[i]
                b    == BranchOf(ChunkOf("reduce"), i - 1)
            IN  (IsLive(prod) /\ ~IsTrivial(prod)) =>
                    /\ pc # "raised" => b # <<>>
                    /\ b # <<>> => BranchShape(b, prod, plain)

\* C2 as stated: the branch of a live production that is not trivial pops one
\* slot per concrete element from the highest index down to 0, downcasts a
\* slot if and only if the compiled expression reads it, drops every other
\* slot, then pushes one value and returns the nonterminal id.
C2_DowncastIffReferenced == BranchesHaveShape(FALSE)

\* C2, amended: as stated, but a slot the compiled expression reads is downcast
\* if and only if the reduction expression is not a bare slot reference; the
\* slot a bare slot reference reads is bound without a downcast
\* (let xk = stack.pop().unwrap();).
C2_DowncastUnlessDiscarding == BranchesHaveShape(TRUE)

C2_Witness ==
    /\ pc = "reduce_simulator"
    /\ parser_states.prods =
          << Prod(nList, <<StrOf("+"), nExpr>>, IntExpr(1)),
             Prod(nStmt, <<nExpr>>, CallMethod("UnaryExpression", <<IntExpr(0)>>)) >>
    /\ IsLive(parser_states.prods[1])
    /\ IsLive(parser_states.prods[2])
    /\ SubSeq(BranchOf(ChunkOf("reduce"), 0), 3, 5) =
          << "            let x1 = stack.pop().unwrap();",
             "            stack.pop();",
             "            stack.push(x1);" >>
    /\ SubSeq(BranchOf(ChunkOf("reduce"), 1), 3, 4) =
          << "            let x0: Box<'alloc, Expr> = stack.pop().unwrap().to_ast();",
             "            stack.push(TryIntoStack::try_into_stack(handler.unary_expression(x0))?);" >>

\* C3: for a production with one concrete element and reduction expression 0,
\* the compiled branch (written when the production is live) holds nothing but
\* the return of the nonterminal id: no pop, no push; and the interpreted
\* reducer (written unless the production is a goal's) is the function of x0
\* that returns x0.
C3_TrivialReductionIsNoOp ==
    /\ HasChunk("reduce") =>
          \A i \in DOMAIN parser_states.prods :
              LET prod == parser_states.prods[i]
                  b    == BranchOf(ChunkOf("reduce"), i - 1)
              IN  IsTrivial(prod) =>
                      IF IsLive(prod)
                      THEN /\ pc # "raised" => b # <<>>
                           /\ b # <<>> =>
                                 /\ Len(b) = 4
                                 /\ b[3] = "            Ok(NonterminalId::"
                                           \o nonterminal_to_camel(prod.nt) \o ")"
                                 /\ \A k \in DOMAIN b : Occurrences(b[k], "stack.") = {}
                      ELSE b = <<>>
    /\ HasChunk("write_python_parser") =>
          \A i \in DOMAIN parser_states.prods :
              LET prod  == parser_states.prods[i]
                  lines == ChunkOf("write_python_parser")
                  at    == IndexOfPrefix(lines, "    # " \o ToString(i - 1) \o ". ",
                                         IndexOfPrefix(lines, "reductions = [", 1))
              IN  (IsTrivial(prod) /\ ~prod.nt.init) =>
                      /\ at # 0
                      /\ EndsWith(lines[at + 1], "', 1, lambda builder, x0: x0),")

C3_Witness ==
    /\ pc = "reduce_simulator"
    /\ parser_states.prods = << Prod(nExpr, <<nList>>, IntExpr(0)) >>
    /\ IsLive(parser_states.prods[1])
    /\ Len(BranchOf(ChunkOf("reduce"), 0)) = 4
    /\ BranchOf(ChunkOf("reduce"), 0)[3] = "            Ok(NonterminalId::Expr)"

\* Scenario B: the one element of the production is an Optional of a
\* nonterminal whose declared type is a named type, and the reduction
\* expression passes the slot to a method.
IsScenarioB(prod, g) ==
    /\ Len(prod.rhs) = 1
    /\ prod.rhs[1].kind = "Optional"
    /\ HasKey(g.nonterminals, prod.rhs[1].inner)
    /\ Lookup(g.nonterminals, prod.rhs[1].inner).type = TExpr
    /\ prod.reducer.kind = "CallMethod"
    /\ prod.reducer.args = <<IntExpr(0)>>

\* C6: for a live production of scenario B compiled generation succeeds, and
\* the branch binds the slot with the type Option<Box<'alloc, Named>>.
C6_OptionalElementBoxedInsideOption ==
    (/\ HasChunk("reduce")
     /\ Len(parser_states.prods) = 1
     /\ IsLive(parser_states.prods[1])
     /\ IsScenarioB(parser_states.prods[1], parser_states.grammar)) =>
        /\ pc # "raised"
        /\ \E k \in DOMAIN ChunkOf("reduce") :
              ChunkOf("reduce")[k] =
                 "            let x0: Option<Box<'alloc, Expr>> = stack.pop().unwrap().to_ast();"

\* The method names the compiled output is to call, tag by tag.
ExpectedRustName ==
    [tag \in {"AssignmentExpression", "UnaryExpression", "PreIncrementExpr 1",
              "CompoundAssignmentExpression"} |->
        CASE tag = "AssignmentExpression" -> "assignment_expression"
          [] tag = "UnaryExpression" -> "unary_expression"
          [] tag = "PreIncrementExpr 1" -> "pre_increment_expr_p1"
          [] tag = "CompoundAssignmentExpression" -> "compound_assignment_expression"]

RECURSIVE Concat(_)
Concat(seqs) == IF seqs = <<>> THEN <<>> ELSE seqs[1] \o Concat(Tail(seqs))

\* The tags of the calls of expr that reach the output, outermost first and
\* left to right: an argument whose declared type is Unit is left out, with the
\* calls in it.
RECURSIVE KeptCalls(_, _)
KeptCalls(expr, g) ==
    IF expr.kind = "CallMethod"
    THEN <<expr.method>>
         \o Concat([k \in DOMAIN expr.args |->
                      IF Lookup(g.methods, expr.method).argument_types[k] = UnitType
                      THEN <<>>
                      ELSE KeptCalls(expr.args[k], g)])
    ELSE IF expr.kind = "Some"
    THEN KeptCalls(expr.inner, g)
    ELSE <<>>

\* The positions of s where the text w starts, in order.
OccurrenceList(s, w) ==
    LET found == Occurrences(s, w)
    IN  [j \in 1..Cardinality(found) |->
            CHOOSE p \in found : Cardinality({q \in found : q < p}) = j - 1]

\* The position of the first "(" of s at or after p.
OpenParen(s, p) ==
    CHOOSE q \in p..Len(s) :
        /\ Ch(s, q) = "("
        /\ \A r \in p..(q - 1) : Ch(s, r) # "("

\* As many parentheses are closed as are opened between positions p and q of s.
IsBalanced(s, p, q) ==
    Cardinality({r \in p..q : Ch(s, r) = "("})
        = Cardinality({r \in p..q : Ch(s, r) = ")"})

\* The position of the ")" of s that closes the "(" at position p.
ClosingParen(s, p) ==
    CHOOSE q \in p..Len(s) :
        /\ Ch(s, q) = ")"
        /\ IsBalanced(s, p, q)
        /\ \A r \in p..(q - 1) : ~(Ch(s, r) = ")" /\ IsBalanced(s, p, r))

\* The name of the method called at the "handler." that starts at p.
CallNameAt(s, p) == SubSeq(s, p + Len("handler."), OpenParen(s, p) - 1)

\* Whether the call at p carries the failure-propagation marker.
IsMarkedAt(s, p) == Ch(s, ClosingParen(s, OpenParen(s, p)) + 1) = "?"

\* C10: in every complete branch, the calls of the pushed expression are the
\* calls of the reduction expression that reach the output, under their
\* normalized names, and a call carries the marker "?" if and only if its
\* normalized name is in FALLIBLE_METHOD_NAMES, at any nesting depth.
C10_MarkerIffFallible ==
    HasChunk("reduce") =>
        \A i \in DOMAIN parser_states.prods :
            LET prod  == parser_states.prods[i]
                b     == BranchOf(ChunkOf("reduce"), i - 1)
                push  == b[Len(b) - 2]
                calls == OccurrenceList(push, "handler.")
                tags  == KeptCalls(prod.reducer, parser_states.grammar)
            IN  (IsLive(prod) /\ ~IsTrivial(prod) /\ b # <<>>) =>
                    /\ Len(calls) = Len(tags)
                    /\ \A j \in DOMAIN calls :
                          /\ CallNameAt(push, calls[j]) = ExpectedRustName[tags[j]]
                          /\ IsMarkedAt(push, calls[j])
                                <=> CallNameAt(push, calls[j]) \in FALLIBLE_METHOD_NAMES

C10_Witness ==
    /\ pc = "reduce_simulator"
    /\ parser_states.prods =
          << Prod(nExpr, <<nExpr>>,
                  CallMethod("PreIncrementExpr 1",
                             <<CallMethod("AssignmentExpression", <<IntExpr(0)>>)>>)) >>
    /\ BranchOf(ChunkOf("reduce"), 0)[4] =
          "            stack.push(TryIntoStack::try_into_stack(handler.pre_increment_expr_p1(handler.assignment_expression(x0)?))?);"

\* The method names the interpreted output is to call, tag by tag.
ExpectedPyName ==
    [tag \in DOMAIN ExpectedRustName |->
        IF tag = "PreIncrementExpr 1" THEN "PreIncrementExpr_P1" ELSE tag]

\* The elements of a finite set of numbers, in ascending order.
Ascending(S) ==
    [j \in 1..Cardinality(S) |->
        CHOOSE p \in S : Cardinality({q \in S : q < p}) = j - 1]

\* Position p of s begins a word: nothing of an identifier comes before it.
BeginsWord(s, p) == p = 1 \/ Ch(s, p - 1) \in {"(", " "}

\* The arguments written between the "(" at position p of s and the ")" that
\* closes it: none when the two are adjacent, otherwise one more than the
\* commas that are not inside inner parentheses.
ArgCount(s, p) ==
    LET close == ClosingParen(s, p)
    IN  IF close = p + 1 THEN 0
        ELSE 1 + Cardinality({r \in (p + 1)..(close - 1) :
                                 Ch(s, r) = "," /\ IsBalanced(s, p + 1, r)})

\* An atom of a compiled expression: a call, with the number of arguments it
\* is written with; a slot reference; None.
CallAtom(name, n) == name \o "(" \o ToString(n) \o ")"

\* The atoms of the expression text s, left to right; receiver is the text
\* every call starts with ("handler." or "builder.").
TextAtoms(s, receiver) ==
    LET calls == Occurrences(s, receiver)
        slots == {p \in 1..(Len(s) - 1) :
                     Ch(s, p) = "x" /\ Ch(s, p + 1) \in Digit /\ BeginsWord(s, p)}
        nones == {p \in Occurrences(s, "None") : BeginsWord(s, p)}
        at    == Ascending(calls \cup slots \cup nones)
    IN  [j \in DOMAIN at |->
            IF at[j] \in calls
            THEN LET open == OpenParen(s, at[j])
                 IN  CallAtom(SubSeq(s, at[j] + Len(receiver), open - 1),
                              ArgCount(s, open))
            ELSE IF at[j] \in slots THEN SubSeq(s, at[j], at[j] + 1)
            ELSE "None"]

\* The arguments of a call that are to reach the output: all of them, or,
\* with drop set, those whose declared parameter type is not Unit.
KeptArgs(expr, g, drop) ==
    {k \in DOMAIN expr.args :
        ~drop \/ Lookup(g.methods, expr.method).argument_types[k] # UnitType}

\* The atoms the compiled text of expr is to hold, left to right, under the
\* method names given.
RECURSIVE KeptAtoms(_, _, _, _)
KeptAtoms(expr, g, names, drop) ==
    IF expr.kind = "CallMethod"
    THEN <<CallAtom(names[expr.method], Cardinality(KeptArgs(expr, g, drop)))>>
         \o Concat([k \in DOMAIN expr.args |->
                      IF k \in KeptArgs(expr, g, drop)
                      THEN KeptAtoms(expr.args[k], g, names, drop)
                      ELSE <<>>])
    ELSE IF expr.kind = "Some"
    THEN KeptAtoms(expr.inner, g, names, drop)
    ELSE IF expr = None
    THEN <<"None">>
    ELSE <<"x" \o ToString(expr.value)>>

\* The slots expr reads outside its unit-typed arguments.
KeptSlots(expr, g) ==
    LET atoms == KeptAtoms(expr, g, ExpectedRustName, TRUE)
    IN  {k \in 0..9 : \E j \in DOMAIN atoms : atoms[j] = "x" \o ToString(k)}

\* The compiled emitter drops the unit-typed arguments: in every complete
\* branch of a live production that is not trivial the pushed expression holds
\* the atoms of the reduction expression outside its unit-typed arguments, in
\* their order, every call with as many arguments as it has parameters that
\* are not Unit; and a slot is popped without being bound exactly when it is
\* not read outside the unit-typed arguments.
RustDropsUnitArguments ==
    HasChunk("reduce") =>
        \A i \in DOMAIN parser_states.prods :
            LET prod == parser_states.prods[i]
                b    == BranchOf(ChunkOf("reduce"), i - 1)
                n    == SlotCount(prod)
            IN  (IsLive(prod) /\ ~IsTrivial(prod) /\ b # <<>>) =>
                    /\ Len(b) = n + 5
                    /\ TextAtoms(b[n + 3], "handler.")
                          = KeptAtoms(prod.reducer, parser_states.grammar,
                                      ExpectedRustName, TRUE)
                    /\ \A k \in 0..(n - 1) :
                          IsDiscard(b[2 + n - k])
                             <=> k \notin KeptSlots(prod.reducer, parser_states.grammar)

\* The text of the reduction expression on the line the interpreted emitter
\* writes for a production: what follows the parameters of the lambda.
PyReducerText(line) ==
    LET colon == CHOOSE p \in Occurrences(line, ": ") :
                     \A q \in Occurrences(line, ": ") : p <= q
    IN  SubSeq(line, colon + 2, Len(line) - 2)

\* The interpreted emitter writes, for every production that is not a goal's,
\* the atoms of the reduction expression in their order; with drop set, those
\* outside the unit-typed arguments only.
PythonWritesArguments(drop) ==
    HasChunk("write_python_parser") =>
        \A i \in DOMAIN parser_states.prods :
            LET prod  == parser_states.prods[i]
                lines == ChunkOf("write_python_parser")
                at    == IndexOfPrefix(lines, "    # " \o ToString(i - 1) \o ". ",
                                       IndexOfPrefix(lines, "reductions = [", 1))
            IN  ~prod.nt.init =>
                    /\ at # 0
                    /\ TextAtoms(PyReducerText(lines[at + 1]), "builder.")
                          = KeptAtoms(prod.reducer, parser_states.grammar,
                                      ExpectedPyName, drop)

\* C11 as stated: in both emitters a compiled method call holds exactly the
\* arguments whose declared parameter type is not Unit, in their original
\* order; the unit-typed arguments are dropped, and a slot read only inside a
\* dropped argument is not marked as read.
C11_UnitArgumentsDroppedInBoth ==
    RustDropsUnitArguments /\ PythonWritesArguments(TRUE)

\* C11, amended: the compiled emitter drops the unit-typed arguments, and a
\* slot read only inside a dropped argument is popped without being bound; the
\* interpreted emitter writes every argument of a call, unit-typed ones
\* included, in their original order.
C11_UnitArgumentsDroppedWhenCompiled ==
    RustDropsUnitArguments /\ PythonWritesArguments(FALSE)

C11_Witness ==
    /\ pc = "reduce_simulator"
    /\ parser_states.prods =
          << Prod(nExpr, <<nExpr, StrOf("+"), StrOf("NUM")>>,
                  CallMethod("CompoundAssignmentExpression",
                             <<IntExpr(1), IntExpr(0)>>)) >>
    /\ IsLive(parser_states.prods[1])
    /\ SubSeq(BranchOf(ChunkOf("reduce"), 0), 3, 6) =
          << "            stack.pop();",
             "            stack.pop();",
             "            let x0: Box<'alloc, Expr> = stack.pop().unwrap().to_ast();",
             "            stack.push(TryIntoStack::try_into_stack(handler.compound_assignment_expression(x0)?)?);" >>

\* The slot a pop line binds, or -1 for a line that binds none.
BoundSlot(line) ==
    IF \E k \in 0..9 : IsPlainBinding(line, k) \/ IsDowncast(line, k)
    THEN CHOOSE k \in 0..9 : IsPlainBinding(line, k) \/ IsDowncast(line, k)
    ELSE -1

\* The run-time stack after the statements of a branch have run on it, from
\* statement j on; env holds the values bound so far, slot by slot. A value
\* bound through to_ast() is the value converted, not the value itself.
RECURSIVE StackAfter(_, _, _, _)
StackAfter(b, j, stack, env) ==
    IF j > Len(b) THEN stack
    ELSE IF IsDiscard(b[j])
    THEN StackAfter(b, j + 1, SubSeq(stack, 1, Len(stack) - 1), env)
    ELSE IF BoundSlot(b[j]) # -1
    THEN StackAfter(b, j + 1, SubSeq(stack, 1, Len(stack) - 1),
                    [env EXCEPT ![BoundSlot(b[j])] =
                        IF IsDowncast(b[j], BoundSlot(b[j]))
                        THEN "to_ast(" \o stack[Len(stack)] \o ")"
                        ELSE stack[Len(stack)]])
    ELSE IF \E k \in 0..9 : b[j] = "            stack.push(x" \o ToString(k) \o ");"
    THEN StackAfter(b, j + 1,
                    Append(stack, env[CHOOSE k \in 0..9 :
                                         b[j] = "            stack.push(x"
                                                \o ToString(k) \o ");"]),
                    env)
    ELSE StackAfter(b, j + 1, stack, env)

\* A stack whose top n slots hold the values of a right-hand side of n
\* concrete elements.
StackOf(n) == <<"below">> \o [k \in 1..n |-> "value" \o ToString(k - 1)]

\* The branches of the live productions before production i are all complete:
\* reduce has reached production i.
ReduceReached(i) ==
    \A h \in 1..(i - 1) :
        IsLive(parser_states.prods[h]) => BranchOf(ChunkOf("reduce"), h - 1) # <<>>

\* C13: for every live production whose reduction expression is a bare slot
\* reference k and which is not trivial, reduce writes a branch that pops one
\* slot per concrete element from the highest index down to 0, binds slot k
\* only, without a downcast, and pushes the binding back as it is; run on a
\* stack, the branch leaves the stack with the slots of the right-hand side
\* removed and the value of slot k on top, unchanged.
C13_DiscardingReductionRepushesSlot ==
    HasChunk("reduce") =>
        \A i \in DOMAIN parser_states.prods :
            LET prod == parser_states.prods[i]
                b    == BranchOf(ChunkOf("reduce"), i - 1)
                n    == SlotCount(prod)
            IN  (IsLive(prod) /\ prod.reducer.kind = "int" /\ ~IsTrivial(prod)
                    /\ ReduceReached(i)) =>
                    /\ Len(b) = n + 5
                    /\ \A k \in 0..(n - 1) :
                          IF k = prod.reducer.value
                          THEN IsPlainBinding(b[2 + n - k], k)
                          ELSE IsDiscard(b[2 + n - k])
                    /\ b[n + 3] = "            stack.push(x"
                                  \o ToString(prod.reducer.value) \o ");"
                    /\ StackAfter(b, 1, StackOf(n), [k \in 0..9 |-> ""])
                          = <<"below", "value" \o ToString(prod.reducer.value)>>

\* The entries of REDUCE_SIMULATOR, in the order written: the lines between
\* the line that opens the table and the line that closes it.
SimulatorEntries ==
    SubSeq(ChunkOf("reduce_simulator"), 2, Len(ChunkOf("reduce_simulator")) - 2)

\* C14: for every production index p that has a branch in the reduce
\* dispatcher, entry p of REDUCE_SIMULATOR (counted from 0, as p is) holds the
\* number of concrete right-hand-side elements of production p and the id of
\* its nonterminal.
C14_SimulatorIndexedByProduction ==
    HasChunk("reduce_simulator") =>
        \A i \in DOMAIN parser_states.prods :
            LET prod == parser_states.prods[i]
            IN  BranchOf(ChunkOf("reduce"), i - 1) # <<>> =>
                    /\ i <= Len(SimulatorEntries)
                    /\ SimulatorEntries[i] =
                          "    (" \o ToString(SlotCount(prod)) \o ", NonterminalId::"
                          \o nonterminal_to_camel(prod.nt) \o "),"

\* The variants of the TerminalId enum, in the order written: the lines
\* between the line that opens the enum and the line that closes it.
TerminalVariants ==
    SubSeq(ChunkOf("terminal_id"), 3, Len(ChunkOf("terminal_id")) - 2)

\* The name of the variant a line of the enum declares: what stands between
\* the indentation and " = ".
VariantName(line) ==
    SubSeq(line, 5, (CHOOSE p \in Occurrences(line, " = ") :
                        \A q \in Occurrences(line, " = ") : p <= q) - 1)

\* The terminals seen in the action rows.
TerminalsSeen ==
    UNION { {parser_states.states[s].action_row[k].key
                : k \in DOMAIN parser_states.states[s].action_row}
            : s \in DOMAIN parser_states.states }

\* C15: when compiled generation has completed without error, the TerminalId
\* enum has one variant per distinct terminal seen in an action row, and no
\* two variants have the same name.
C15_TerminalVariantsDistinct ==
    (target = "rust" /\ pc = "done") =>
        /\ Len(TerminalVariants) = Cardinality(TerminalsSeen)
        /\ \A i, j \in DOMAIN TerminalVariants :
              i # j => VariantName(TerminalVariants[i]) # VariantName(TerminalVariants[j])

(***************************************************************************)
(* The type translator on its own: type_to_rust applied to one type.       *)
(***************************************************************************)
TypeNames == {"Option", "Vec", "Expr", "Pair"}

\* The types of exactly k nodes: Unit, Token, and names applied to at most two
\* argument types, Option and Vec with a wrong number of arguments included.
RECURSIVE TypesOfSize(_)
TypesOfSize(k) ==
    IF k = 1
    THEN {UnitType, TokenType} \cup {Type(n, <<>>) : n \in TypeNames}
    ELSE { Type(n, <<a>>) : n \in TypeNames, a \in TypesOfSize(k - 1) }
         \cup UNION { { Type(n, <<a, b>>) : n \in TypeNames,
                                            a \in TypesOfSize(i),
                                            b \in TypesOfSize(k - 1 - i) }
                      : i \in 1..(k - 2) }

Types == UNION {TypesOfSize(k) : k \in 1..MaxTypeNodes}

TypeCalls ==
    { [fn |-> "type_to_rust", ty |-> ty, namespace |-> ns, boxed |-> b]
        : ty \in Types, ns \in {"", "ast"}, b \in BOOLEAN }

InitTypes ==
    /\ target = "rust"
    /\ parser_states = IR(LiveAll, <<>>)
    /\ terminals = <<>>
    /\ nonterminals = <<>>
    /\ pc = "type_to_rust"
    /\ out = <<>>
    /\ error = ""
    /\ pure_call \in TypeCalls
    /\ pure_result = NoCall

call_type_to_rust ==
    /\ pc = "type_to_rust"
    /\ pure_result' = type_to_rust(pure_call.ty, pure_call.namespace, pure_call.boxed)
    /\ pc' = "returned"
    /\ UNCHANGED <<target, parser_states, terminals, nonterminals, out, error, pure_call>>

NextTypes == call_type_to_rust

SpecTypes == InitTypes /\ [][NextTypes]_vars

(***************************************************************************)
(* Properties of the type translator, under SpecTypes.                     *)
(***************************************************************************)
IsOption(ty) == ty.name = "Option" /\ Len(ty.args) = 1

IsVec(ty) == ty.name = "Vec" /\ Len(ty.args) = 1

IsNamed(ty) == ty.name \notin {"Unit", "Token", "Option", "Vec"}

\* The types C8 speaks of: Token, a sequence of T, a named type.
IsBoxable(ty) == ty = TokenType \/ IsVec(ty) \/ IsNamed(ty)

\* C7: for every type T and either value of boxed, type_to_rust(Option<T>, boxed)
\* is "Option<" + type_to_rust(T, boxed) + ">" (and fails as the translation of T
\* fails); the text returned for an Option never starts with the arena Box,
\* however deep the Options nest.
C7_OptionOfTranslatedArgument ==
    (pc = "returned" /\ IsOption(pure_call.ty)) =>
        LET inner == type_to_rust(pure_call.ty.args[1], pure_call.namespace,
                                  pure_call.boxed)
        IN  IF inner.ok
            THEN /\ pure_result = Returned("Option<" \o inner.value \o ">")
                 /\ ~StartsWith(pure_result.value, "Box<")
            ELSE pure_result = Raised(inner.error)

C7_Witness ==
    /\ pc = "returned"
    /\ pure_call.ty = Type("Option", <<Type("Option", <<Type("Expr", <<>>)>>)>>)
    /\ pure_call.boxed
    /\ pure_call.namespace = ""
    /\ pure_result = Returned("Option<Option<Box<'alloc, Expr>>>")

\* C8 as stated: for every Token, sequence or named type, the translation with
\* boxing requested is Box<'alloc, R>, R the translation of the same type
\* without boxing.
C8_BoxOnlyOutermost ==
    (pc = "returned" /\ pure_call.boxed /\ IsBoxable(pure_call.ty)) =>
        pure_result = Returned("Box<'alloc, "
                               \o type_to_rust(pure_call.ty, pure_call.namespace,
                                               FALSE).value
                               \o ">")

\* C8, amended: the translation with boxing requested is Box<'alloc, R> with R
\* the unboxed translation for Token, for a sequence and for a named type
\* without arguments; for a named type with arguments it is
\* Box<'alloc, path<A1, ..., An>> with every Ai translated with boxing requested
\* too, and it fails when the translation of some Ai with boxing fails.
C8_BoxAroundBoxedArguments ==
    (pc = "returned" /\ pure_call.boxed /\ IsBoxable(pure_call.ty)) =>
        IF IsNamed(pure_call.ty) /\ pure_call.ty.args # <<>>
        THEN LET args == [i \in DOMAIN pure_call.ty.args |->
                            type_to_rust(pure_call.ty.args[i], pure_call.namespace, TRUE)]
                 path == IF pure_call.namespace = "" THEN pure_call.ty.name
                         ELSE pure_call.namespace \o "::" \o pure_call.ty.name
             IN  IF \A i \in DOMAIN args : args[i].ok
                 THEN pure_result =
                        Returned("Box<'alloc, " \o path \o "<"
                                 \o str_join(", ", [i \in DOMAIN args |-> args[i].value])
                                 \o ">>")
                 ELSE pure_result = Raised("AssertionError")
        ELSE pure_result = Returned("Box<'alloc, "
                                    \o type_to_rust(pure_call.ty, pure_call.namespace,
                                                    FALSE).value
                                    \o ">")

C8_Witness ==
    /\ pc = "returned"
    /\ pure_call.ty = Type("Pair", <<Type("Expr", <<>>), TokenType>>)
    /\ pure_call.boxed
    /\ pure_call.namespace = ""
    /\ pure_result = Returned("Box<'alloc, Pair<Box<'alloc, Expr>, Box<'alloc, Token<'alloc>>>>")

\* A shape the translator has no rule for: Option or Vec without exactly one
\* argument.
IsUnrecognized(ty) == ty.name \in {"Option", "Vec"} /\ Len(ty.args) # 1

\* C9: type_to_rust applied to a type of an unrecognized shape ends in an error
\* and returns no type text.
C9_UnrecognizedShapeIsFatal ==
    (pc = "returned" /\ IsUnrecognized(pure_call.ty)) => ~pure_result.ok

(***************************************************************************)
(* The identifier normaliser on its own: to_snek_case and to_camel_case    *)
(* applied in turn to one identifier, as nonterminal_to_camel applies them.*)
(***************************************************************************)
MaxIdentLen == 4    \* characters of a generated identifier

MaxRounds == 2      \* round trips made on one identifier

IdentChars == {"A", "B", "a", "b", "1"}

\* The identifiers of exactly k characters.
RECURSIVE IdentsOfLen(_)
IdentsOfLen(k) ==
    IF k = 0 THEN {""}
    ELSE {c \o rest : c \in IdentChars, rest \in IdentsOfLen(k - 1)}

Idents == UNION {IdentsOfLen(k) : k \in 1..MaxIdentLen}

NameCalls == { [fn |-> "nonterminal_to_camel", ident |-> x, rounds |-> 0] : x \in Idents }

InitNames ==
    /\ target = "rust"
    /\ parser_states = IR(LiveAll, <<>>)
    /\ terminals = <<>>
    /\ nonterminals = <<>>
    /\ pc = "to_snek_case"
    /\ out = <<>>
    /\ error = ""
    /\ pure_call \in NameCalls
    /\ pure_result = NoCall

\* to_snek_case applied to the identifier, or to what the last round trip
\* returned.
call_to_snek_case ==
    /\ pc = "to_snek_case"
    /\ pure_call.rounds < MaxRounds
    /\ pure_result' = [fn |-> "to_snek_case",
                       value |-> to_snek_case(IF pure_call.rounds = 0
                                              THEN pure_call.ident
                                              ELSE pure_result.value)]
    /\ pc' = "to_camel_case"
    /\ UNCHANGED <<target, parser_states, terminals, nonterminals, out, error, pure_call>>

\* to_camel_case applied to what to_snek_case returned: one round trip made.
call_to_camel_case ==
    /\ pc = "to_camel_case"
    /\ pure_result' = [fn |-> "to_camel_case",
                       value |-> to_camel_case(pure_result.value),
                       snake |-> pure_result.value]
    /\ pure_call' = [pure_call EXCEPT !.rounds = @ + 1]
    /\ pc' = "to_snek_case"
    /\ UNCHANGED <<target, parser_states, terminals, nonterminals, out, error>>

NextNames ==
    \/ call_to_snek_case
    \/ call_to_camel_case

SpecNames == InitNames /\ [][NextNames]_vars

(***************************************************************************)
(* Properties of the identifier normaliser, under SpecNames.               *)
(***************************************************************************)
\* A concatenation of one or more title-case segments, each an upper-case
\* letter followed by one or more lower-case letters or digits: the first
\* character is an upper-case letter, and every upper-case letter is followed
\* by a lower-case letter or a digit.
IsTitleCase(x) ==
    /\ x # ""
    /\ Ch(x, 1) \in Upper
    /\ \A i \in 1..Len(x) :
          /\ Ch(x, i) \in Upper \cup Lower \cup Digit
          /\ Ch(x, i) \in Upper =>
                (i < Len(x) /\ Ch(x, i + 1) \in Lower \cup Digit)

\* C12: for an identifier x made of title-case segments,
\* to_camel_case(to_snek_case(x)) = x, and so is what any further round trip
\* returns.
C12_RoundTripIsIdentity ==
    (pure_result # NoCall /\ pure_result.fn = "to_camel_case"
        /\ IsTitleCase(pure_call.ident)) =>
        pure_result.value = pure_call.ident

C12_Witness ==
    /\ pc = "to_snek_case"
    /\ pure_call.ident = "AaB1"
    /\ pure_call.rounds = 2
    /\ pure_result = [fn |-> "to_camel_case", value |-> "AaB1", snake |-> "aa_b1"]
====
